---- MODULE Spec2Model ----
(***************************************************************************)
(* Nebula control interface: the gesture loop (GestureController), the     *)
(* shared control signal (App.paramsRef), the particle field and its       *)
(* render loop (GalaxyCanvas), and the analysis request path               *)
(* (App.handleAnalyze, startListening, generateCosmicAnalysis).            *)
(*                                                                         *)
(* Fixed point: chaos, scale, openness and normalised landmark coordinates *)
(* are integers in thousandths (Unit = 1.0).  Pixel positions are in       *)
(* thousandths of a pixel, angles in milliradians.                         *)
(***************************************************************************)
EXTENDS Integers, Sequences, FiniteSets, TLC

VARIABLES
    \* ---- App
    paramsRef,      \* paramsRef.current : SimulationParams
    uiParams,       \* React state uiParams
    ui,             \* committed React state: isAnalyzing, isListening, messages
    queued,         \* state updates enqueued outside a React event, not yet rendered
    calls,          \* generateCosmicAnalysis calls issued so far (the await in handleAnalyze)
    sessions,       \* SpeechRecognition objects created by startListening
    \* ---- GestureController
    mounted,        \* the view is mounted
    initPc,         \* position of initMediaPipe
    handLandmarker, \* handLandmarkerRef.current is set
    camPc,          \* position of startWebcam
    videoRef,       \* videoRef.current is set
    srcObject,      \* videoRef.current.srcObject holds the stream
    stream,         \* the MediaStream of getUserMedia: "none", "live", "stopped"
    loading,        \* React state loading
    error,          \* React state error
    cameraReady,    \* App state cameraReady
    gestureRaf,     \* a predictWebcam callback is scheduled (requestRef.current)
    lastFrame,      \* what the last predictWebcam run did, on which input, from which signal
    \* ---- GalaxyCanvas
    renderRaf,      \* a render callback is scheduled (animationFrameRef.current)
    particles,      \* particlesRef.current
    canvas,         \* canvas.width, canvas.height
    ticks,          \* render ticks run so far
    lastTick        \* the control signal the last render tick read, and the error shown then

appVars     == <<paramsRef, uiParams>>
analyzeVars == <<ui, queued, calls, sessions>>
gestureVars == <<mounted, initPc, handLandmarker, camPc, videoRef, srcObject, stream,
                 loading, error, cameraReady, gestureRaf, lastFrame>>
canvasVars  == <<renderRaf, particles, canvas, ticks, lastTick>>
vars        == <<appVars, analyzeVars, gestureVars, canvasVars>>

Min(a, b) == IF a < b THEN a ELSE b
Max(a, b) == IF a > b THEN a ELSE b

\* 1.0 in thousandths
Unit == 1000

(***************************************************************************)
(* App: the control signal                                                 *)
(***************************************************************************)
INITIAL_PARAMS == [chaos |-> 100, scale |-> 500, active |-> FALSE]

\* { ...cur, ...newParams }
Spread(cur, newParams) ==
    [k \in DOMAIN cur |-> IF k \in DOMAIN newParams THEN newParams[k] ELSE cur[k]]

\* setUiParams on an unmounted component is dropped by React.
handleParamsUpdate(newParams) ==
    /\ paramsRef' = Spread(paramsRef, newParams)
    /\ uiParams' = IF mounted THEN Spread(uiParams, newParams) ELSE uiParams

(***************************************************************************)
(* GestureController: one detection frame                                  *)
(***************************************************************************)
\* Landmark indices read by predictWebcam
THUMB_TIP == 4
INDEX_TIP == 8
\* distance * 5
PinchGain == 5
\* let scale = 0.5 (thousandths)
DefaultScale == 500
\* let chaos = 0
DefaultChaos == 0

\* Math.sqrt on the fixed-point grid: the floor of the root, found by bisection
\* of 0..MaxRoot
MaxRoot == 1500
RECURSIVE SqrtBetween(_, _, _)
SqrtBetween(n, lo, hi) ==
    IF lo >= hi THEN lo
    ELSE LET mid == (lo + hi + 1) \div 2
         IN  IF mid * mid <= n THEN SqrtBetween(n, mid, hi)
             ELSE SqrtBetween(n, lo, mid - 1)
Sqrt(n) == SqrtBetween(n, 0, MaxRoot)

EuclideanDistance(thumb, indexFinger) ==
    Sqrt((thumb.x - indexFinger.x) * (thumb.x - indexFinger.x)
         + (thumb.y - indexFinger.y) * (thumb.y - indexFinger.y))

\* Math.min(Math.max(distance * 5, 0), 1)
NormalizedNoUpperClamp(distance) == Max(distance * PinchGain, 0)
normalizedValue(distance) == Min(Max(distance * PinchGain, 0), Unit)

\* The hand's assignment; the first assignment chaos = 1 - normalizedValue is
\* overwritten by chaos = normalizedValue two lines later.
AssignHand(acc, handedness, value) ==
    IF handedness = "Left"
    THEN [acc EXCEPT !.chaos = value]
    ELSE [acc EXCEPT !.scale = value]

\* The body of result.landmarks.forEach for one hand.  Reading .x of an absent
\* landmarks[4] or landmarks[8] throws a TypeError, which ends the forEach.
HandStep(acc, hand) ==
    IF acc.threw THEN acc
    ELSE IF THUMB_TIP \notin DOMAIN hand.landmarks \/ INDEX_TIP \notin DOMAIN hand.landmarks
    THEN [acc EXCEPT !.threw = TRUE]
    ELSE AssignHand(acc, hand.handedness,
                    normalizedValue(EuclideanDistance(hand.landmarks[THUMB_TIP],
                                                      hand.landmarks[INDEX_TIP])))

RECURSIVE ForEachHandReversed(_, _)
ForEachHandReversed(acc, hands) ==
    IF hands = <<>> THEN acc
    ELSE ForEachHandReversed(HandStep(acc, hands[Len(hands)]),
                             SubSeq(hands, 1, Len(hands) - 1))
RECURSIVE ForEachHand(_, _)
ForEachHand(acc, hands) ==
    IF hands = <<>> THEN acc
    ELSE ForEachHand(HandStep(acc, Head(hands)), Tail(hands))

\* Lines 224-262: the locals after the frame's observations are read.
FrameLocals(hands) ==
    LET start == [chaos |-> DefaultChaos, scale |-> DefaultScale,
                  handsDetected |-> FALSE, threw |-> FALSE]
    IN  IF Len(hands) > 0
        THEN ForEachHand([start EXCEPT !.handsDetected = TRUE], hands)
        ELSE start

\* predictWebcam, run once.  videoWidth = 0 skips detection; a throw inside the
\* forEach leaves the function before onParamsUpdate and requestAnimationFrame.
predictWebcam(hands, videoWidth) ==
    IF ~handLandmarker \/ ~videoRef
    THEN /\ gestureRaf' = FALSE
         /\ lastFrame' = [outcome |-> "returned", hands |-> <<>>, prev |-> paramsRef]
         /\ UNCHANGED appVars
    ELSE IF videoWidth = 0
    THEN /\ gestureRaf' = TRUE
         /\ lastFrame' = [outcome |-> "skipped", hands |-> <<>>, prev |-> paramsRef]
         /\ UNCHANGED appVars
    ELSE LET l == FrameLocals(hands) IN
         IF l.threw
         THEN /\ gestureRaf' = FALSE
              /\ lastFrame' = [outcome |-> "threw", hands |-> hands, prev |-> paramsRef]
              /\ UNCHANGED appVars
         ELSE /\ handleParamsUpdate([chaos |-> l.chaos, scale |-> l.scale,
                                     active |-> l.handsDetected])
              /\ gestureRaf' = TRUE
              /\ lastFrame' = [outcome |-> "emitted", hands |-> hands, prev |-> paramsRef]


(***************************************************************************)
(* What the detector may return for a frame                                *)
(***************************************************************************)
Thumb == [x |-> 400, y |-> 400]
\* index fingertips at distance 0, 0.04, 0.1 and 0.5 of the thumb tip
IndexPoints == {[x |-> 400, y |-> 400], [x |-> 424, y |-> 432],
                [x |-> 460, y |-> 480], [x |-> 700, y |-> 800]}
Handedness == {"Left", "Right"}

WellFormedHands ==
    {[handedness |-> h, landmarks |-> (THUMB_TIP :> Thumb @@ INDEX_TIP :> p)] :
        h \in Handedness, p \in IndexPoints}
\* a hand whose landmark list lacks the thumb tip, or the index fingertip
MalformedHands ==
    {[handedness |-> "Left", landmarks |-> (INDEX_TIP :> Thumb)],
     [handedness |-> "Right", landmarks |-> (THUMB_TIP :> Thumb)]}
Hands == WellFormedHands \cup MalformedHands

\* numHands: 2
MaxHands == 2
Frames(H) == UNION {[1..n -> H] : n \in 0..MaxHands}
VideoWidths == {0, 640}

(***************************************************************************)
(* GestureController: start-up, loop and teardown                          *)
(***************************************************************************)
MODEL_ERROR  == "Failed to load AI models. Please refresh."
CAMERA_ERROR == "Camera permission denied. Enable camera to control simulation."

\* setState of an unmounted component is dropped.
SetState(cur, new) == IF mounted THEN new ELSE cur

\* await FilesetResolver.forVisionTasks(...) resolves
VisionResolved ==
    /\ initPc = "forVisionTasks"
    /\ initPc' = "createFromOptions"
    /\ UNCHANGED <<appVars, analyzeVars, canvasVars, mounted, handLandmarker, camPc,
                   videoRef, srcObject, stream, loading, error, cameraReady,
                   gestureRaf, lastFrame>>

\* either await of initMediaPipe rejects: catch -> setError
InitMediaPipeFailed ==
    /\ initPc \in {"forVisionTasks", "createFromOptions"}
    /\ initPc' = "failed"
    /\ error' = SetState(error, MODEL_ERROR)
    /\ UNCHANGED <<appVars, analyzeVars, canvasVars, mounted, handLandmarker, camPc,
                   videoRef, srcObject, stream, loading, cameraReady, gestureRaf,
                   lastFrame>>

\* await HandLandmarker.createFromOptions(...) resolves; startWebcam() is called
\* and runs to its await of getUserMedia.
LandmarkerCreated ==
    /\ initPc = "createFromOptions"
    /\ initPc' = "done"
    /\ handLandmarker' = TRUE
    /\ camPc' = "getUserMedia"
    /\ UNCHANGED <<appVars, analyzeVars, canvasVars, mounted, videoRef, srcObject,
                   stream, loading, error, cameraReady, gestureRaf, lastFrame>>

\* getUserMedia resolves with a live stream; it is attached only if the video
\* element is still referenced.
GetUserMediaGranted ==
    /\ camPc = "getUserMedia"
    /\ stream' = "live"
    /\ IF videoRef
       THEN srcObject' = TRUE /\ camPc' = "onloadeddata"
       ELSE srcObject' = srcObject /\ camPc' = "noVideo"
    /\ UNCHANGED <<appVars, analyzeVars, canvasVars, mounted, initPc, handLandmarker,
                   videoRef, loading, error, cameraReady, gestureRaf, lastFrame>>

\* getUserMedia rejects: catch -> setError
GetUserMediaDeniedHalts ==
    /\ camPc = "getUserMedia"
    /\ camPc' = "denied"
    /\ error' = SetState(error, CAMERA_ERROR)
    /\ renderRaf' = FALSE
    /\ UNCHANGED <<appVars, analyzeVars, particles, canvas, ticks, lastTick, mounted,
                   initPc, handLandmarker, videoRef, srcObject, stream, loading,
                   cameraReady, gestureRaf, lastFrame>>
GetUserMediaDenied ==
    /\ camPc = "getUserMedia"
    /\ camPc' = "denied"
    /\ error' = SetState(error, CAMERA_ERROR)
    /\ UNCHANGED <<appVars, analyzeVars, canvasVars, mounted, initPc, handLandmarker,
                   videoRef, srcObject, stream, loading, cameraReady, gestureRaf,
                   lastFrame>>

\* video.onloadeddata: setLoading(false); onCameraReady(true); predictWebcam()
VideoLoadedData(H) ==
    /\ camPc = "onloadeddata"
    /\ camPc' = "loaded"
    /\ loading' = SetState(loading, FALSE)
    /\ cameraReady' = SetState(cameraReady, TRUE)
    /\ \E hands \in Frames(H), videoWidth \in VideoWidths :
           predictWebcam(hands, videoWidth)
    /\ UNCHANGED <<analyzeVars, canvasVars, mounted, initPc, handLandmarker, videoRef,
                   srcObject, stream, error>>

\* the animation-frame callback scheduled by predictWebcam
GestureFrame(H) ==
    /\ gestureRaf
    /\ \E hands \in Frames(H), videoWidth \in VideoWidths :
           predictWebcam(hands, videoWidth)
    /\ UNCHANGED <<analyzeVars, canvasVars, mounted, initPc, handLandmarker, camPc,
                   videoRef, srcObject, stream, loading, error, cameraReady>>

\* View teardown.  GalaxyCanvas: cancelAnimationFrame(animationFrameRef.current).
\* GestureController: cancelAnimationFrame(requestRef.current), then the tracks
\* are stopped if videoRef.current and its srcObject are set.  React clears the
\* ref of the removed <video>; whether the effect cleanup runs before or after
\* that depends on the React release, so the cleanup may see either.
Unmount ==
    /\ mounted
    /\ mounted' = FALSE
    /\ renderRaf' = FALSE
    /\ gestureRaf' = FALSE
    /\ \E refAtCleanup \in {videoRef, FALSE} :
           stream' = IF refAtCleanup /\ srcObject THEN "stopped" ELSE stream
    /\ videoRef' = FALSE
    /\ UNCHANGED <<appVars, analyzeVars, particles, canvas, ticks, lastTick, initPc,
                   handLandmarker, camPc, srcObject, loading, error, cameraReady,
                   lastFrame>>


(***************************************************************************)
(* GalaxyCanvas: Particle                                                  *)
(***************************************************************************)
\* Math.PI and Math.PI * 2 in milliradians
Pi    == 3142
TwoPi == 6283

\* Math.sin on [0, Pi] (Bhaskara's rational approximation), in thousandths
SinHalfTurn(a) ==
    LET p == (a * (Pi - a)) \div 100
    IN  (16000 * p) \div (((5 * Pi * Pi) \div 100) - 4 * p)
Sin(a) ==
    LET r == a % TwoPi
    IN  IF r <= Pi THEN SinHalfTurn(r) ELSE -SinHalfTurn(Min(r - Pi, Pi))
Cos(a) == Sin(a + Pi \div 2)

\* particles in the pool; they stand for the 800 of Array.from({ length: 800 })
PoolSize == 2
COLORS == <<"rgba(255, 255, 255, ", "rgba(100, 200, 255, ",
            "rgba(200, 100, 255, ", "rgba(255, 150, 50, ">>

\* new Particle(width, height); d holds the constructor's Math.random() draws,
\* in thousandths.
NewParticle(width, height, d) ==
    [x            |-> (width * Unit) \div 2,
     y            |-> (height * Unit) \div 2,
     z            |-> d.z * 2,
     vx           |-> 0,
     vy           |-> 0,
     angle        |-> (d.angle * TwoPi) \div Unit,
     radius       |-> d.radius * (Min(width, height) \div 3),
     angularSpeed |-> (20 + (d.speed * 50) \div Unit) * (IF d.dir < 500 THEN 1 ELSE -1),
     size         |-> d.size * 2 + 500,
     color        |-> COLORS[(d.color * Len(COLORS)) \div Unit + 1]]

\* this.radius * (0.1 + scale * 1.5)
TargetRadius(radius, scale) == (radius * (100 + (scale * 3) \div 2)) \div Unit
\* chaos * 5, in thousandths of a pixel
JitterNeverZero(chaos) == chaos * 5 + Unit
Jitter(chaos) == chaos * 5
\* this.angle + this.angularSpeed * (1 + chaos * 2)
NextAngle(angle, angularSpeed, chaos) ==
    angle + (angularSpeed * (Unit + chaos * 2)) \div Unit

\* Particle.update(width, height, chaos, scale); rx, ry are the two
\* Math.random() draws of the jitter, in thousandths.
UpdateAlsoRadius(p, width, height, chaos, scale, rx, ry) ==
    LET cx == (width * Unit) \div 2
        cy == (height * Unit) \div 2
        targetRadius == TargetRadius(p.radius, scale)
        angle == NextAngle(p.angle, p.angularSpeed, chaos)
        targetX == cx + (Cos(angle) * targetRadius) \div Unit
        targetY == cy + (Sin(angle) * targetRadius) \div Unit
    IN  [p EXCEPT !.angle = angle,
                  !.radius = targetRadius,
                  !.x = p.x + (targetX - p.x) \div 10 + ((rx - 500) * Jitter(chaos)) \div Unit,
                  !.y = p.y + (targetY - p.y) \div 10 + ((ry - 500) * Jitter(chaos)) \div Unit]
update(p, width, height, chaos, scale, rx, ry) ==
    LET cx == (width * Unit) \div 2
        cy == (height * Unit) \div 2
        targetRadius == TargetRadius(p.radius, scale)
        angle == NextAngle(p.angle, p.angularSpeed, chaos)
        targetX == cx + (Cos(angle) * targetRadius) \div Unit
        targetY == cy + (Sin(angle) * targetRadius) \div Unit
    IN  [p EXCEPT !.angle = angle,
                  !.x = p.x + (targetX - p.x) \div 10 + ((rx - 500) * Jitter(chaos)) \div Unit,
                  !.y = p.y + (targetY - p.y) \div 10 + ((ry - 500) * Jitter(chaos)) \div Unit]

(***************************************************************************)
(* GalaxyCanvas: the render loop                                           *)
(***************************************************************************)
\* a <canvas> without width/height attributes
DefaultCanvas == [width |-> 300, height |-> 150]
WindowSizes == {[width |-> 300, height |-> 150], [width |-> 800, height |-> 600]}
\* render ticks explored
MaxTicks == 2
\* Math.random() draws, in thousandths
RandomDraws == {0, 500, 900}

\* The jitter draws of one tick, per particle: the pair <<a, b>> for the odd
\* particles and <<b, a>> for the even ones.
JitterDraws(indices, draws) ==
    {[i \in indices |-> IF i % 2 = 1 THEN <<a, b>> ELSE <<b, a>>] :
        a \in draws, b \in draws}

\* render(): resize, read the control signal, update every particle, schedule
\* the next frame.  Drawing changes no state of the program.  maxTicks is the
\* number of ticks explored.
renderWithin(windows, draws, maxTicks) ==
    /\ renderRaf
    /\ ticks < maxTicks
    /\ \E win \in windows, r \in JitterDraws(DOMAIN particles, draws) :
          /\ canvas' = IF canvas.width # win.width \/ canvas.height # win.height
                       THEN win ELSE canvas
          /\ particles' = [i \in DOMAIN particles |->
                             update(particles[i], canvas'.width, canvas'.height,
                                    paramsRef.chaos, paramsRef.scale, r[i][1], r[i][2])]
    /\ renderRaf' = TRUE
    /\ ticks' = ticks + 1
    /\ lastTick' = [chaos |-> paramsRef.chaos, scale |-> paramsRef.scale, error |-> error]
    /\ UNCHANGED <<appVars, analyzeVars, gestureVars>>
render(windows, draws) == renderWithin(windows, draws, MaxTicks)


(***************************************************************************)
(* services/geminiService: generateCosmicAnalysis                          *)
(***************************************************************************)
EMPTY_TEXT_FALLBACK == "Connection to Deep Space Network lost..."
ANALYSIS_FAILED     == "ANALYSIS FAILED: Cosmic interference detected."
DEFAULT_CONTEXT     == "Describe the visual and physical state of this galaxy in 2 sentences."

\* Math.round(v * 100) of a value in thousandths
RoundPct(v) == (v + 5) \div 10

\* the prompt sent to ai.models.generateContent
Prompt(chaos, scale, userQuery) ==
    [chaosPct |-> RoundPct(chaos), scalePct |-> RoundPct(scale),
     contextInstruction |-> IF userQuery # "" THEN "The user (Starship Captain) asks"
                            ELSE DEFAULT_CONTEXT,
     userQuery |-> userQuery]

\* what ai.models.generateContent may do: resolve with text, resolve with empty
\* text, or reject
Responses == {[kind |-> "text", text |-> "A spiral of light."],
              [kind |-> "text", text |-> ""],
              [kind |-> "rejected", text |-> ""]}

\* How the promise of generateCosmicAnalysis settles, given the response of the
\* external call: the whole body is inside try/catch.
generateCosmicAnalysisRethrows(chaos, scale, userQuery, response) ==
    IF response.kind = "rejected"
    THEN [settled |-> "rejected", value |-> "Gemini Error"]
    ELSE [settled |-> "fulfilled",
          value |-> IF response.text # "" THEN response.text ELSE EMPTY_TEXT_FALLBACK]
generateCosmicAnalysis(chaos, scale, userQuery, response) ==
    IF response.kind = "rejected"
    THEN [settled |-> "fulfilled", value |-> ANALYSIS_FAILED]
    ELSE [settled |-> "fulfilled",
          value |-> IF response.text # "" THEN response.text ELSE EMPTY_TEXT_FALLBACK]

(***************************************************************************)
(* App: React state of the analysis panel                                  *)
(***************************************************************************)
DEFAULT_REQUEST == "Analyze current simulation status."

ApplyUpdate(state, u) ==
    CASE u.op = "setIsAnalyzing" -> [state EXCEPT !.isAnalyzing = u.value]
      [] u.op = "setIsListening" -> [state EXCEPT !.isListening = u.value]
      [] u.op = "setMessages"    -> [state EXCEPT !.messages = Append(@, u.value)]

RECURSIVE ApplyAll(_, _)
ApplyAll(state, updates) ==
    IF updates = <<>> THEN state
    ELSE ApplyAll(ApplyUpdate(state, Head(updates)), Tail(updates))

\* Updates made inside a React event handler are rendered before the next
\* event; updates made from any other callback (a promise continuation, a
\* SpeechRecognition event) are batched and rendered later.  Updates of an
\* unmounted component are dropped.
Enqueue(updates, inReactEvent) ==
    IF ~mounted THEN UNCHANGED <<ui, queued>>
    ELSE IF inReactEvent THEN ui' = ApplyAll(ui, updates) /\ queued' = queued
    ELSE ui' = ui /\ queued' = queued \o updates

\* the batched render
ReactRender ==
    /\ mounted
    /\ queued # <<>>
    /\ ui' = ApplyAll(ui, queued)
    /\ queued' = <<>>
    /\ UNCHANGED <<appVars, calls, sessions, gestureVars, canvasVars>>

\* disabled={isAnalyzing || isListening}, of the rendered buttons
ButtonsDisabled == ui.isAnalyzing \/ ui.isListening

\* analysis calls and recognition sessions explored
MaxCalls    == 2
MaxSessions == 2
Transcripts == {"", "Captain to observer"}

\* handleAnalyze up to its await.  isAnalyzing is the value captured by the
\* closure: that of the render which created this handleAnalyze.  before holds
\* the updates the calling callback made ahead of the call.
handleAnalyze(isAnalyzing, customPrompt, before, inReactEvent) ==
    IF isAnalyzing
    THEN /\ Enqueue(before, inReactEvent)
         /\ calls' = calls
    ELSE LET displayText == IF customPrompt # "" THEN customPrompt ELSE DEFAULT_REQUEST
             userMsg == [role |-> "user", text |-> displayText]
         IN  /\ Enqueue(before \o <<[op |-> "setIsAnalyzing", value |-> TRUE],
                                    [op |-> "setMessages", value |-> userMsg]>>,
                        inReactEvent)
             /\ calls' = Append(calls,
                    [chaos |-> paramsRef.chaos, scale |-> paramsRef.scale,
                     userQuery |-> customPrompt,
                     prompt |-> Prompt(paramsRef.chaos, paramsRef.scale, customPrompt),
                     state |-> "pending", response |-> "none", settled |-> "none",
                     value |-> ""])

\* onClick={() => handleAnalyze()} of the ANALYZE button
ClickAnalyze ==
    /\ mounted
    /\ ~ButtonsDisabled
    /\ Len(calls) < MaxCalls
    /\ handleAnalyze(ui.isAnalyzing, "", <<>>, TRUE)
    /\ UNCHANGED <<appVars, sessions, gestureVars, canvasVars>>

\* the external call of call i settles, generateCosmicAnalysis settles, and
\* handleAnalyze resumes after its await.  A rejection would end handleAnalyze
\* at the await.
AnalysisSettled ==
    \E i \in DOMAIN calls, response \in Responses :
        /\ calls[i].state = "pending"
        /\ LET c == calls[i]
               r == generateCosmicAnalysis(c.chaos, c.scale, c.userQuery, response)
           IN  /\ calls' = [calls EXCEPT ![i] = [c EXCEPT !.state = "settled",
                                                         !.response = response.kind,
                                                         !.settled = r.settled,
                                                         !.value = r.value]]
               /\ IF r.settled = "fulfilled"
                  THEN Enqueue(<<[op |-> "setMessages",
                                  value |-> [role |-> "model", text |-> r.value]],
                                 [op |-> "setIsAnalyzing", value |-> FALSE]>>, FALSE)
                  ELSE UNCHANGED <<ui, queued>>
        /\ UNCHANGED <<appVars, sessions, gestureVars, canvasVars>>

(***************************************************************************)
(* App: startListening and the SpeechRecognition callbacks                 *)
(***************************************************************************)
\* onClick={startListening} of the voice button.  Without SpeechRecognition the
\* handler alerts and returns.  The session's onresult keeps the handleAnalyze
\* of this render.
StartListening ==
    /\ mounted
    /\ ~ButtonsDisabled
    /\ Len(sessions) < MaxSessions
    /\ \E supported \in BOOLEAN :
          IF supported
          THEN /\ sessions' = Append(sessions, [phase |-> "listening",
                                                isAnalyzing |-> ui.isAnalyzing])
               /\ Enqueue(<<[op |-> "setIsListening", value |-> TRUE]>>, TRUE)
          ELSE UNCHANGED <<sessions, ui, queued>>
    /\ UNCHANGED <<appVars, calls, gestureVars, canvasVars>>

\* recognition.onresult: one final result per session (interimResults = false,
\* not continuous)
OnResult ==
    \E i \in DOMAIN sessions, transcript \in Transcripts :
        /\ sessions[i].phase = "listening"
        /\ Len(calls) < MaxCalls
        /\ sessions' = [sessions EXCEPT ![i].phase = "resulted"]
        /\ handleAnalyze(sessions[i].isAnalyzing, transcript,
                         <<[op |-> "setIsListening", value |-> FALSE]>>, FALSE)
        /\ UNCHANGED <<appVars, gestureVars, canvasVars>>

\* recognition.onerror: the session delivers no result after an error
OnError ==
    \E i \in DOMAIN sessions :
        /\ sessions[i].phase = "listening"
        /\ sessions' = [sessions EXCEPT ![i].phase = "errored"]
        /\ Enqueue(<<[op |-> "setIsListening", value |-> FALSE]>>, FALSE)
        /\ UNCHANGED <<appVars, calls, gestureVars, canvasVars>>

\* recognition.onend: always the last event of a session
OnEnd ==
    \E i \in DOMAIN sessions :
        /\ sessions[i].phase \in {"listening", "resulted", "errored"}
        /\ sessions' = [sessions EXCEPT ![i].phase = "ended"]
        /\ Enqueue(<<[op |-> "setIsListening", value |-> FALSE]>>, FALSE)
        /\ UNCHANGED <<appVars, calls, gestureVars, canvasVars>>


(***************************************************************************)
(* The mounted application                                                 *)
(***************************************************************************)
\* Math.random() draws of the Particle constructor, in thousandths
ParticleDraws ==
    {[z |-> 0, angle |-> 0, radius |-> 900, speed |-> 0, dir |-> 0, size |-> 0,
      color |-> 0],
     [z |-> 500, angle |-> 250, radius |-> 500, speed |-> 600, dir |-> 900,
      size |-> 500, color |-> 600]}

\* The pools the first effect of GalaxyCanvas can create on the default canvas.
Pools(D) ==
    {[i \in 1..PoolSize |->
        NewParticle(DefaultCanvas.width, DefaultCanvas.height, d[i])] :
     d \in [1..PoolSize -> D]}

\* After the first commit: the pool exists, the first render() is due,
\* initMediaPipe waits for FilesetResolver.forVisionTasks.
Mounted(pools) ==
    /\ paramsRef = INITIAL_PARAMS
    /\ uiParams = INITIAL_PARAMS
    /\ ui = [isAnalyzing |-> FALSE, isListening |-> FALSE, messages |-> <<>>]
    /\ queued = <<>>
    /\ calls = <<>>
    /\ sessions = <<>>
    /\ mounted = TRUE
    /\ initPc = "forVisionTasks"
    /\ handLandmarker = FALSE
    /\ camPc = "idle"
    /\ videoRef = TRUE
    /\ srcObject = FALSE
    /\ stream = "none"
    /\ loading = TRUE
    /\ error = "null"
    /\ cameraReady = FALSE
    /\ gestureRaf = FALSE
    /\ lastFrame = [outcome |-> "none", hands |-> <<>>, prev |-> INITIAL_PARAMS]
    /\ renderRaf = TRUE
    /\ particles \in pools
    /\ canvas = DefaultCanvas
    /\ ticks = 0
    /\ lastTick = [chaos |-> INITIAL_PARAMS.chaos, scale |-> INITIAL_PARAMS.scale,
                   error |-> "null"]

OnePool == {CHOOSE pool \in Pools(ParticleDraws) : TRUE}

StartUp ==
    \/ VisionResolved
    \/ InitMediaPipeFailed
    \/ LandmarkerCreated
    \/ GetUserMediaGranted
    \/ GetUserMediaDenied

\* ---- the gesture loop on every frame the detector may return
InitGesture == Mounted(OnePool)
NextGesture ==
    \/ StartUp
    \/ VideoLoadedData(Hands)
    \/ GestureFrame(Hands)
    \/ Unmount
SpecGesture == InitGesture /\ [][NextGesture]_vars

\* ---- the analysis panel
InitAnalyze == Mounted(OnePool)
NextAnalyze ==
    \/ ClickAnalyze
    \/ AnalysisSettled
    \/ StartListening
    \/ OnResult
    \/ OnError
    \/ OnEnd
    \/ ReactRender
    \/ Unmount
SpecAnalyze == InitAnalyze /\ [][NextAnalyze]_vars
\* Every external call settles (the awaited promise resolves or rejects), and
\* React renders the updates it has batched.
SpecAnalyzeFair ==
    SpecAnalyze /\ WF_vars(AnalysisSettled) /\ WF_vars(ReactRender)


\* ---- the whole view: start-up, gesture loop, render loop, ANALYZE button and
\* teardown (the voice path is explored in SpecAnalyze)
AppHands ==
    {[handedness |-> "Left", landmarks |-> (THUMB_TIP :> Thumb @@ INDEX_TIP :> [x |-> 460, y |-> 480])],
     [handedness |-> "Right", landmarks |-> (THUMB_TIP :> Thumb)]}
AppWindows == {[width |-> 800, height |-> 600]}
AppDraws == {500}

Init == Mounted(OnePool)
Next ==
    \/ StartUp
    \/ VideoLoadedData(AppHands)
    \/ GestureFrame(AppHands)
    \/ render(AppWindows, AppDraws)
    \/ ClickAnalyze
    \/ AnalysisSettled
    \/ ReactRender
    \/ Unmount
Spec == Init /\ [][Next]_vars

\* ---- the particle field under the render loop, for every pool, window size
\* and jitter draw, from each control signal a first detection frame can set
ParticleHands ==
    {[handedness |-> "Left", landmarks |-> (THUMB_TIP :> Thumb @@ INDEX_TIP :> Thumb)],
     [handedness |-> "Left", landmarks |-> (THUMB_TIP :> Thumb @@ INDEX_TIP :> [x |-> 460, y |-> 480])],
     [handedness |-> "Right", landmarks |-> (THUMB_TIP :> Thumb @@ INDEX_TIP :> [x |-> 700, y |-> 800])]}

\* The state after start-up succeeded and video.onloadeddata ran predictWebcam
\* on hands, before the first render tick.
Running(pools, hands) ==
    LET l == FrameLocals(hands)
        signal == [chaos |-> l.chaos, scale |-> l.scale, active |-> l.handsDetected]
    IN  /\ paramsRef = signal
        /\ uiParams = signal
        /\ ui = [isAnalyzing |-> FALSE, isListening |-> FALSE, messages |-> <<>>]
        /\ queued = <<>>
        /\ calls = <<>>
        /\ sessions = <<>>
        /\ mounted = TRUE
        /\ initPc = "done"
        /\ handLandmarker = TRUE
        /\ camPc = "loaded"
        /\ videoRef = TRUE
        /\ srcObject = TRUE
        /\ stream = "live"
        /\ loading = FALSE
        /\ error = "null"
        /\ cameraReady = TRUE
        /\ gestureRaf = TRUE
        /\ lastFrame = [outcome |-> "emitted", hands |-> hands, prev |-> INITIAL_PARAMS]
        /\ renderRaf = TRUE
        /\ particles \in pools
        /\ canvas = DefaultCanvas
        /\ ticks = 0
        /\ lastTick = [chaos |-> INITIAL_PARAMS.chaos, scale |-> INITIAL_PARAMS.scale,
                       error |-> "null"]

InitParticles == \E hands \in Frames(ParticleHands) : Running(Pools(ParticleDraws), hands)
NextParticles == render(WindowSizes, RandomDraws)
SpecParticles == InitParticles /\ [][NextParticles]_vars

\* ---- the particle field under the signal chaos = 0, scale = 1, which stays as
\* it is when no further frame arrives; more ticks than in SpecParticles.  The
\* first tick sizes the canvas to the window, which is not resized afterwards.
MaxOrbitTicks == 9
InitOrbit ==
    \E hands \in Frames(ParticleHands) :
        /\ FrameLocals(hands).chaos = 0
        /\ FrameLocals(hands).scale = Unit
        /\ Running(Pools(ParticleDraws), hands)
NextOrbit ==
    renderWithin(IF ticks = 0 THEN WindowSizes ELSE {canvas}, RandomDraws, MaxOrbitTicks)
SpecOrbit == InitOrbit /\ [][NextOrbit]_vars


(***************************************************************************)
(* Properties of the gesture loop (SpecGesture)                            *)
(***************************************************************************)
WellFormed(hand) ==
    THUMB_TIP \in DOMAIN hand.landmarks /\ INDEX_TIP \in DOMAIN hand.landmarks
\* thumb/index distance of a hand, and its clamp(d * 5, 0, 1)
PinchDistance(hand) ==
    EuclideanDistance(hand.landmarks[THUMB_TIP], hand.landmarks[INDEX_TIP])
Clamp01(v) == IF v < 0 THEN 0 ELSE IF v > Unit THEN Unit ELSE v
Openness(hand) == Clamp01(PinchDistance(hand) * 5)
Emitted == lastFrame.outcome = "emitted"

\* C1: a detection frame with zero observations emits active = false and the
\* chaos and scale of the previous frame's signal.
C1_NoObservationRetainsSignal ==
    (Emitted /\ lastFrame.hands = <<>>) =>
        /\ paramsRef.active = FALSE
        /\ paramsRef.chaos = lastFrame.prev.chaos
        /\ paramsRef.scale = lastFrame.prev.scale

\* C2: a frame with exactly one observation sets the parameter of that hand to
\* clamp(d * 5, 0, 1) and emits the other parameter as the prior frame left it.
C2_OneHandKeepsOtherParameter ==
    (Emitted /\ Len(lastFrame.hands) = 1) =>
        LET hand == lastFrame.hands[1] IN
        IF hand.handedness = "Left"
        THEN paramsRef.chaos = Openness(hand) /\ paramsRef.scale = lastFrame.prev.scale
        ELSE paramsRef.scale = Openness(hand) /\ paramsRef.chaos = lastFrame.prev.chaos

\* C3: in every reachable state the shared control signal has chaos and scale
\* in [0, 1].
C3_SignalInUnitRange ==
    /\ paramsRef.chaos \in 0..Unit
    /\ paramsRef.scale \in 0..Unit
\* a frame whose pinch distance times 5 exceeds 1 was clamped to exactly 1
C3_ClampedFrameSeen ==
    /\ Emitted
    /\ \E i \in DOMAIN lastFrame.hands :
          /\ lastFrame.hands[i].handedness = "Right"
          /\ PinchDistance(lastFrame.hands[i]) * 5 > Unit
    /\ paramsRef.scale = Unit
    /\ lastFrame.prev.active

\* C4: a frame holding a hand without its thumb-tip or index-fingertip landmark
\* raises no error: a signal is emitted for the frame and the next detection
\* frame is scheduled.
C4_MalformedHandTolerated ==
    (\E i \in DOMAIN lastFrame.hands : ~WellFormed(lastFrame.hands[i])) =>
        /\ Emitted
        /\ mounted => gestureRaf

\* C9: of two observations with the same handedness label, the later one sets
\* the parameter they control, and the signal is what the later one alone gives.
C9_LaterDuplicateWins ==
    (/\ Emitted
     /\ Len(lastFrame.hands) = 2
     /\ lastFrame.hands[1].handedness = lastFrame.hands[2].handedness) =>
        LET later == lastFrame.hands[2] IN
        IF later.handedness = "Left"
        THEN paramsRef.chaos = Openness(later) /\ paramsRef.scale = DefaultScale
        ELSE paramsRef.scale = Openness(later) /\ paramsRef.chaos = DefaultChaos
C9_DuplicateSeen ==
    /\ Emitted
    /\ Len(lastFrame.hands) = 2
    /\ lastFrame.hands[1].handedness = "Left"
    /\ lastFrame.hands[2].handedness = "Left"
    /\ Openness(lastFrame.hands[1]) # Openness(lastFrame.hands[2])
    /\ paramsRef.chaos = Openness(lastFrame.hands[2])


(***************************************************************************)
(* Properties of the analysis panel (SpecAnalyze)                          *)
(***************************************************************************)
Outstanding == {i \in DOMAIN calls : calls[i].state = "pending"}

\* C5: at most one generateCosmicAnalysis call is outstanding at any time,
\* whatever the order of button clicks, recognition callbacks and renders.
C5_AtMostOneOutstanding == Cardinality(Outstanding) <= 1
\* C6: generateCosmicAnalysis never rejects: whatever the external call does,
\* it fulfils with a string, and with the fixed ANALYSIS FAILED text when the
\* external call failed.
C6_AnalysisAlwaysFulfils ==
    \A i \in DOMAIN calls :
        calls[i].state = "settled" =>
            /\ calls[i].settled = "fulfilled"
            /\ calls[i].value # ""
            /\ calls[i].response = "rejected" => calls[i].value = ANALYSIS_FAILED
C6_FailedCallSeen ==
    \E i \in DOMAIN calls :
        /\ calls[i].state = "settled"
        /\ calls[i].response = "rejected"
        /\ calls[i].value = ANALYSIS_FAILED

(***************************************************************************)
(* Properties of the whole view (Spec)                                     *)
(***************************************************************************)
\* C7: after teardown no gesture or render tick is scheduled and every captured
\* camera stream has its tracks stopped.
C7_TeardownReleasesEverything ==
    ~mounted => (~gestureRaf /\ ~renderRaf /\ stream # "live")

UpstreamFailure ==
    \/ error # "null"
    \/ lastFrame.outcome = "threw"
    \/ \E i \in DOMAIN calls : calls[i].response = "rejected"

\* C8: no upstream failure (detector initialisation, camera permission, gesture
\* frame, analysis call) stops the render loop: while the view is mounted the
\* next render tick stays scheduled.
C8_RenderLoopSurvivesFailures ==
    (mounted /\ UpstreamFailure) => renderRaf
\* a render tick ran while an error banner was shown and after an analysis call
\* had failed, and the next one is scheduled
C8_TickAfterFailures ==
    /\ mounted
    /\ lastTick.error # "null"
    /\ \E i \in DOMAIN calls : calls[i].response = "rejected"
    /\ ticks = MaxTicks
    /\ renderRaf

(***************************************************************************)
(* Properties of the particle field (SpecParticles)                        *)
(***************************************************************************)
\* C10: a tick changes only x, y and angle of a particle: radius, angular
\* speed, size and colour of every particle, and the size of the pool, stay as
\* they were.
C10_TickKeepsShape ==
    [][/\ Len(particles') = PoolSize
       /\ Len(particles) = PoolSize
       /\ \A i \in DOMAIN particles :
             /\ particles'[i].radius = particles[i].radius
             /\ particles'[i].angularSpeed = particles[i].angularSpeed
             /\ particles'[i].size = particles[i].size
             /\ particles'[i].color = particles[i].color]_vars
\* after the ticks, on a resized canvas and under jitter, particles have moved
C10_ParticlesMoved ==
    /\ ticks = MaxTicks
    /\ canvas # DefaultCanvas
    /\ paramsRef.chaos > 0
    /\ \A i \in DOMAIN particles :
          /\ particles[i].x # (DefaultCanvas.width * Unit) \div 2
          /\ particles[i].y # (DefaultCanvas.height * Unit) \div 2

(***************************************************************************)
(* Properties of the particle field at rest (SpecOrbit)                    *)
(***************************************************************************)
\* the point on the circle of radius 1.6 * radius around the centre of canvas
\* c, at the particle's angle, in thousandths of a pixel
OrbitTarget(p, c) ==
    [x |-> (c.width * Unit) \div 2 + (Cos(p.angle) * ((p.radius * 16) \div 10)) \div Unit,
     y |-> (c.height * Unit) \div 2 + (Sin(p.angle) * ((p.radius * 16) \div 10)) \div Unit]
\* distance of two points, in hundredths of a pixel
Distance(a, b) ==
    LET dx == Max(a.x - b.x, b.x - a.x) \div 10
        dy == Max(a.y - b.y, b.y - a.y) \div 10
    IN  SqrtBetween(dx * dx + dy * dy, 0, Max(dx, dy) + Min(dx, dy) \div 2)
\* a tick under chaos = 0 and scale = 1 that leaves the canvas size as it is
TickAtRest ==
    /\ paramsRef.chaos = 0
    /\ paramsRef.scale = Unit
    /\ ticks' = ticks + 1
    /\ canvas' = canvas
\* the tick's result is the same for every pair of jitter draws
NoJitter(i) ==
    \A rx \in RandomDraws, ry \in RandomDraws :
        particles'[i] = update(particles[i], canvas'.width, canvas'.height,
                               paramsRef.chaos, paramsRef.scale, rx, ry)

\* C11 as stated: under chaos = 0, scale = 1 and a fixed canvas size every
\* tick adds no jitter, and the distance of every particle to its orbital
\* target point (the point of the orbit of radius 1.6 * radius at the
\* particle's angle) after the tick is 0.9 of that distance before the tick,
\* within one percent.
C11_DistanceShrinksEveryTick ==
    [][TickAtRest =>
         \A i \in DOMAIN particles :
            LET before == Distance(particles[i], OrbitTarget(particles[i], canvas))
                after  == Distance(particles'[i], OrbitTarget(particles'[i], canvas'))
            IN  /\ NoJitter(i)
                /\ 89 * before <= 100 * after
                /\ 100 * after <= 91 * before]_vars
\* C11, amended: under chaos = 0, scale = 1 and a fixed canvas size every tick
\* adds no jitter and moves every particle nine tenths of the way closer to
\* the target point of that tick (the point of the orbit of radius
\* 1.6 * radius at the angle the tick has advanced to): on each axis the
\* offset to that point after the tick is 0.9 of the offset before it, up to
\* the rounding of one thousandth of a pixel.
C11_TickContractsTowardOwnTarget ==
    [][TickAtRest =>
         \A i \in DOMAIN particles :
            LET target == OrbitTarget(particles'[i], canvas')
            IN  /\ NoJitter(i)
                /\ 10 * (target.x - particles'[i].x) - 9 * (target.x - particles[i].x) \in 0..9
                /\ 10 * (target.y - particles'[i].y) - 9 * (target.y - particles[i].y) \in 0..9]_vars
\* all the ticks ran on the default canvas under chaos = 0, scale = 1, and
\* every particle has left the centre and is still away from its target point
C11_OrbitTicksRan ==
    /\ ticks = MaxOrbitTicks
    /\ paramsRef.chaos = 0
    /\ paramsRef.scale = Unit
    /\ canvas = DefaultCanvas
    /\ \A i \in DOMAIN particles :
          /\ particles[i].x # (DefaultCanvas.width * Unit) \div 2
          /\ Distance(particles[i], OrbitTarget(particles[i], canvas)) > 0

(***************************************************************************)
(* Completion of handleAnalyze (SpecAnalyzeFair)                           *)
(***************************************************************************)
\* the message list once the batched updates are rendered
Posted ==
    LET q == SelectSeq(queued, LAMBDA u : u.op = "setMessages")
    IN  ui.messages \o [k \in 1..Len(q) |-> q[k].value]
\* messages of a role among the first n of a list
CountRole(messages, role, n) ==
    Cardinality({k \in 1..n : messages[k].role = role})
Settled == {i \in DOMAIN calls : calls[i].state = "settled"}
\* while the view is mounted: every call that passed the gate has posted one
\* user message, every settled call one model message after it, and the busy
\* flag is false once no call is outstanding and all updates are rendered
AnalysisBookkeeping ==
    mounted =>
        /\ CountRole(Posted, "user", Len(Posted)) = Len(calls)
        /\ CountRole(Posted, "model", Len(Posted)) = Cardinality(Settled)
        /\ \A n \in 0..Len(Posted) :
              CountRole(Posted, "model", n) <= CountRole(Posted, "user", n)
        /\ (Outstanding = {} /\ queued = <<>>) => ~ui.isAnalyzing

\* every call that passed the gate has completed: it is settled, its two
\* messages are rendered and isAnalyzing is false
AllCompleted ==
    /\ Outstanding = {}
    /\ queued = <<>>
    /\ Len(ui.messages) = 2 * Len(calls)
    /\ ~ui.isAnalyzing

\* C12: every handleAnalyze call that passed the busy-flag gate completes,
\* provided the external call settles and the view stays mounted: it posts
\* exactly one user message and later exactly one model message, and
\* afterwards isAnalyzing is false again, whether the external call succeeded or
\* failed.
C12_EveryAnalysisCompletes ==
    /\ []AnalysisBookkeeping
    /\ []<>(~mounted \/ AllCompleted)
\* one call whose external call succeeded and one whose external call failed
\* have completed: four messages, user before model, and the busy flag false
C12_BothOutcomesCompleted ==
    /\ mounted
    /\ queued = <<>>
    /\ Len(calls) = MaxCalls
    /\ Outstanding = {}
    /\ \E i \in DOMAIN calls : calls[i].response = "rejected"
    /\ \E i \in DOMAIN calls : calls[i].response = "text"
    /\ Len(ui.messages) = 2 * MaxCalls
    /\ ui.messages[1].role = "user"
    /\ ui.messages[Len(ui.messages)].role = "model"
    /\ ~ui.isAnalyzing

====
